---- MODULE Spec2Model ----
(***************************************************************************)
(* Model of the periodic-table page: startup (app.js), table rendering    *)
(* and alias search (table.js).                                            *)
(*                                                                         *)
(* Strings that the code inspects character by character (queries and      *)
(* aliases) are sequences of Unicode code points.  Element symbols are     *)
(* only used as lookup keys and are kept as atomic strings.                *)
(***************************************************************************)
EXTENDS Integers, Sequences, FiniteSets, TLC

\* ------------------------------------------------------------------ bounds
MaxLen == 2        \* longest query typed into the search box
MaxElems == 3      \* largest elements.json mapping
MaxBuilds == 2     \* cap on the number of buildPeriodicTable calls
MaxClicks == 2     \* cap on the number of clicks on cells

\* ------------------------------------------------------- values and inputs
\* A JSON attribute that is missing (undefined); falsy in `a && b`, like 0.
Absent == 0

\* Code points used by the inputs:
\*   72 'H'   104 'h'   32 ' '   55 '7'
\*   1783 Persian (extended Arabic-Indic) digit seven  U+06F7
\*   1639 Arabic-Indic digit seven                     U+0667
Chars == {72, 104, 32, 55, 1783, 1639}

RECURSIVE StringsOfLen(_)
StringsOfLen(n) ==
  IF n = 0 THEN {<<>>}
  ELSE {<<c>> \o s : c \in Chars, s \in StringsOfLen(n - 1)}

\* every value the search input can hold
Queries == UNION {StringsOfLen(n) : n \in 0..MaxLen}

\* A string attribute of a JSON record: missing, null, or a string.
Undefined == [type |-> "undefined"]

Null == [type |-> "null"]

Text(str) == [type |-> "string", value |-> str]

\* A list attribute of a JSON record with n entries
List(n) == [type |-> "array", length |-> n]

\* Element records of elements.json (the attributes the scripts decide on).
ElementUniverse ==
  { [symbol |-> "H",   atomicNumber |-> 1,   group |-> 1,      period |-> 1,
     category |-> Text("nonmetal"), uses |-> List(2)],
    [symbol |-> "Ba",  atomicNumber |-> 56,  group |-> 2,      period |-> 6,
     category |-> Text("alkaline earth metal"), uses |-> List(2)],
    [symbol |-> "La",  atomicNumber |-> 57,  group |-> Absent, period |-> 6,
     category |-> Text("lanthanide"), uses |-> List(2)],
    [symbol |-> "Lu",  atomicNumber |-> 71,  group |-> 3,      period |-> 6,
     category |-> Text("lanthanide"), uses |-> List(2)],
    [symbol |-> "Ac",  atomicNumber |-> 89,  group |-> Absent, period |-> Absent,
     category |-> Text("actinide"), uses |-> List(2)],
    [symbol |-> "Uue", atomicNumber |-> 119, group |-> Absent, period |-> 8,
     category |-> Text("unknown"), uses |-> List(2)] }

RECURSIVE OrderingsOf(_)
\* all iteration orders of a set of elements
OrderingsOf(S) ==
  IF S = {} THEN {<<>>}
  ELSE UNION {{<<e>> \o p : p \in OrderingsOf(S \ {e})} : e \in S}

\* elements.json: a mapping listed in some iteration order (Object.values)
ElementInputs ==
  UNION {OrderingsOf(S) : S \in {T \in SUBSET ElementUniverse : Cardinality(T) <= MaxElems}}

\* aliases.json: symbol -> list of alias strings; a symbol may have no entry
AliasInputs ==
  { [s \in {"H", "Ba", "La"} |->
       CASE s = "H"  -> << <<72, 55>>, <<32, 104, 32>> >>
         [] s = "Ba" -> << <<55>> >>
         [] s = "La" -> << <<1783>>, <<1639, 72>> >>],
    [s \in {"H", "Lu", "Ac", "Uue"} |->
       CASE s = "H"   -> << <<104, 72>> >>
         [] s = "Lu"  -> << >>
         [] s = "Ac"  -> << <<55, 32, 55>> >>
         [] s = "Uue" -> << <<72>> >>] }

\* what dataset.symbol holds for an element without a symbol; the missing
\* symbol of the record is written the same way
MissingSymbol == "undefined"

\* elements files whose records lack attributes
RobustElementInputs ==
  { << [symbol |-> "Xx", atomicNumber |-> Absent, group |-> 3, period |-> 2,
        category |-> Text("a b"), uses |-> List(2)],
       [symbol |-> "H", atomicNumber |-> 1, group |-> 1, period |-> 1,
        category |-> Undefined, uses |-> Undefined],
       [symbol |-> MissingSymbol, atomicNumber |-> 56, group |-> 2, period |-> 6,
        category |-> Null, uses |-> List(2)] >>,
    << [symbol |-> "Lu", atomicNumber |-> 71, group |-> Absent, period |-> Absent,
        category |-> Undefined, uses |-> List(2)],
       [symbol |-> "La", atomicNumber |-> 57, group |-> Absent, period |-> 6,
        category |-> Text("lanthanide"), uses |-> List(2)] >>,
    << >> }

SurfaceIds == {"periodicTable", "seriesContainer", "searchInput", "clearSearch"}

Range(s) == {s[i] : i \in 1..Len(s)}

\* --------------------------------------------------- table.js: normalizeString
\* mutant of ToLowerCase: the case is kept
ToLowerCaseSkipped(str) == str

\* String.prototype.toLowerCase on the letters of the inputs
ToLowerCase(str) ==
  [i \in 1..Len(str) |-> IF str[i] \in 65..90 THEN str[i] + 32 ELSE str[i]]

\* the characters matched by \s
IsWhitespace(c) == c \in {9, 10, 11, 12, 13, 32, 160}

\* .replace(/\s+/g, '')
RemoveWhitespace(str) == SelectSeq(str, LAMBDA c : ~IsWhitespace(c))

\* the literal "۱۲۳۴۵۶۷۸۹" of line 99
PersianDigits == [i \in 1..9 |-> 1776 + i]

\* String.prototype.indexOf for one character: 0-based, -1 when not found
IndexOf(str, d) ==
  IF d \in Range(str)
  THEN (CHOOSE i \in 1..Len(str) : str[i] = d /\ \A j \in 1..(i - 1) : str[j] # d) - 1
  ELSE -1

\* .replace(/[۱-۹]/g, d => "۱۲۳۴۵۶۷۸۹".indexOf(d)); the number returned by
\* the callback is written as its decimal digit
ReplacePersianDigits(str) ==
  [i \in 1..Len(str) |->
     IF str[i] \in 1777..1785 THEN 48 + IndexOf(PersianDigits, str[i]) ELSE str[i]]

\* .replace(/[۰]/g, '0')
ReplacePersianZero(str) ==
  [i \in 1..Len(str) |-> IF str[i] = 1776 THEN 48 ELSE str[i]]

normalizeString(str) ==
  IF str = <<>> THEN <<>>
  ELSE ReplacePersianZero(ReplacePersianDigits(RemoveWhitespace(ToLowerCase(str))))

\* ------------------------------------------------ table.js: search functions
\* mutant of StartsWith: String.prototype.includes
StartsWithAnywhere(str, prefix) ==
  \E k \in 1..(Len(str) + 1) :
     /\ k + Len(prefix) - 1 <= Len(str)
     /\ SubSeq(str, k, k + Len(prefix) - 1) = prefix

\* String.prototype.startsWith
StartsWith(str, prefix) ==
  /\ Len(prefix) <= Len(str)
  /\ SubSeq(str, 1, Len(prefix)) = prefix

\* aliasesData[symbol] || []
AliasesOf(aliases, symbol) ==
  IF symbol \in DOMAIN aliases THEN aliases[symbol] ELSE <<>>

\* aliasesData[symbol]: the list stored for the symbol, or nothing
AliasEntry(aliases, symbol) ==
  IF symbol \in DOMAIN aliases THEN {aliases[symbol]} ELSE {}

\* mutant of OrEmptyList: the lookup is used as it is
OrEmptyListSkipped(entry) == entry

\* entry || []
OrEmptyList(entry) == IF entry = {} THEN {<<>>} ELSE entry

\* mutant of isMatch: the alias is compared as it is written
isMatchRawAlias(aliases, symbol, normalizedQuery) ==
  \E i \in 1..Len(AliasesOf(aliases, symbol)) :
     StartsWith(AliasesOf(aliases, symbol)[i], normalizedQuery)

\* aliases.some(alias => normalizeString(alias).startsWith(normalizedQuery))
isMatch(aliases, symbol, normalizedQuery) ==
  \E i \in 1..Len(AliasesOf(aliases, symbol)) :
     StartsWith(normalizeString(AliasesOf(aliases, symbol)[i]), normalizedQuery)

\* mutant of resetSearch: the flags stay
resetSearchSkipped(cells, flagged) == flagged

\* resetSearch(cells): the set of cells carrying search-no-match afterwards
resetSearch(cells, flagged) == flagged \ Range(cells)

\* mutant of performSmartSearch: the reset is decided on the raw query
performSmartSearchRawTest(query, aliases, cells, flagged) ==
  IF query = <<>>
  THEN resetSearch(cells, flagged)
  ELSE (flagged \ {c \in Range(cells) :
                     c.symbol # "" /\ isMatch(aliases, c.symbol, normalizeString(query))})
       \cup {c \in Range(cells) :
                     c.symbol # "" /\ ~isMatch(aliases, c.symbol, normalizeString(query))}

\* -------------------------------------------------------- detail-panel.js
\* element.uses.map(...) fails unless uses is a list (line 69)
openDetailPanelThrows(element) == element.uses.type # "array"

\* window.openDetailPanel(element): the hidden flag and the content of the
\* panel afterwards; `attached` tells whether the panel is in the document
openDetailPanel(element, surfaces, attached, hidden, content) ==
  IF "detailPanel" \notin surfaces \/ ~attached THEN [hidden |-> hidden, content |-> content]
  ELSE IF "detailContent" \notin surfaces THEN [hidden |-> hidden, content |-> content]
  ELSE IF openDetailPanelThrows(element) THEN [hidden |-> hidden, content |-> content]
  ELSE [hidden |-> FALSE, content |-> element]

\* mutant of closeDetailPanel: classList.toggle
closeDetailPanelToggle(surfaces, attached, hidden) ==
  IF "detailPanel" \notin surfaces \/ ~attached THEN hidden ELSE ~hidden

\* closeDetailPanel(): the hidden flag afterwards
closeDetailPanel(surfaces, attached, hidden) ==
  IF "detailPanel" \notin surfaces \/ ~attached THEN hidden ELSE TRUE

\* mutant of clickListener: the callback is called a second time
clickListenerTwice(cell, hasCallback, calls) ==
  IF hasCallback THEN Append(Append(calls, cell.element), cell.element) ELSE calls

\* the click listener of a cell (lines 69-77): the calls of
\* window.openDetailPanel made so far, after this click
clickListener(cell, hasCallback, calls) ==
  IF hasCallback THEN Append(calls, cell.element) ELSE calls

\* mutant of performSmartSearch: a flag is added, never removed
performSmartSearchAddOnly(query, aliases, cells, flagged) ==
  IF normalizeString(query) = <<>>
  THEN resetSearch(cells, flagged)
  ELSE flagged
       \cup {c \in Range(cells) :
                     c.symbol # "" /\ ~isMatch(aliases, c.symbol, normalizeString(query))}

\* performSmartSearch(query, aliasesData, cells): the set of cells carrying
\* search-no-match afterwards
performSmartSearch(query, aliases, cells, flagged) ==
  IF normalizeString(query) = <<>>
  THEN resetSearch(cells, flagged)
  ELSE (flagged \ {c \in Range(cells) :
                     c.symbol # "" /\ isMatch(aliases, c.symbol, normalizeString(query))})
       \cup {c \in Range(cells) :
                     c.symbol # "" /\ ~isMatch(aliases, c.symbol, normalizeString(query))}

\* ----------------------------------------------- table.js: buildPeriodicTable
\* element.category?.replace(...): the call is skipped for a missing category
\* and fails for a category that is not a string
createCellThrows(element) == element.category.type \notin {"undefined", "null", "string"}

\* createCell(element); `build` tells the DOM nodes of one call from the next,
\* `element` is the record the click listener of lines 69-77 closes over
createCell(element, build) ==
  [symbol |-> element.symbol, atomicNumber |-> element.atomicNumber,
   gridColumn |-> Absent, gridRow |-> Absent, build |-> build, element |-> element]

\* mutant of Compare: descending
CompareDescending(a, b) == b.atomicNumber - a.atomicNumber

\* (a, b) => a.atomicNumber - b.atomicNumber; a missing atomic number gives
\* NaN, which sort reads as 0
Compare(a, b) ==
  IF a.atomicNumber = Absent \/ b.atomicNumber = Absent THEN 0
  ELSE a.atomicNumber - b.atomicNumber

RECURSIVE InsertSorted(_, _)
InsertSorted(e, s) ==
  IF s = <<>> THEN <<e>>
  ELSE IF Compare(Head(s), e) <= 0 THEN <<Head(s)>> \o InsertSorted(e, Tail(s))
  ELSE <<e>> \o s

\* mutant of SortElements: the array is left in iteration order
SortElementsSkipped(s) == s

RECURSIVE SortElements(_)
\* elementsArray.sort(comparator): a stable sort
SortElements(s) ==
  IF s = <<>> THEN <<>>
  ELSE InsertSorted(s[Len(s)], SortElements(SubSeq(s, 1, Len(s) - 1)))

\* what elementsArray.sort may leave: with every atomic number present the
\* comparator is consistent and the result is the sorted array; with a
\* missing one the order is left to the implementation
SortOutcomes(s) ==
  IF \E i \in 1..Len(s) : s[i].atomicNumber = Absent
  THEN OrderingsOf(Range(s))
  ELSE {SortElements(s)}

\* mutant of ToggleClasses: a cell that gets the flag is taken out of its parent
ToggleClassesDetaching(d, flagged) ==
  [mainTable |-> SelectSeq(d.mainTable, LAMBDA c : c \notin flagged),
   seriesContainer |->
     [k \in 1..Len(d.seriesContainer) |->
        SelectSeq(d.seriesContainer[k], LAMBDA c : c \notin flagged)]]

\* what cell.classList.add / cell.classList.remove (lines 163-167 and 177)
\* do to the children of the containers: nothing
ToggleClasses(d, flagged) == d

\* cells whose iteration fails: aliases.some is called on what the lookup of
\* line 156 left, which must be a list
ThrowingCells(aliases, cells) ==
  {i \in 1..Len(cells) :
     cells[i].symbol # "" /\ OrEmptyList(AliasEntry(aliases, cells[i].symbol)) = {}}

\* performSmartSearch does not return normally
performSmartSearchThrows(query, aliases, cells) ==
  normalizeString(query) # <<>> /\ ThrowingCells(aliases, cells) # {}

\* the cells the forEach of lines 152-168 gets through
CellsVisited(query, aliases, cells) ==
  IF performSmartSearchThrows(query, aliases, cells)
  THEN SubSeq(cells, 1,
              (CHOOSE i \in ThrowingCells(aliases, cells) :
                 \A j \in ThrowingCells(aliases, cells) : i <= j) - 1)
  ELSE cells

IsLanthanide(element) == element.atomicNumber >= 57 /\ element.atomicNumber <= 71

IsActinide(element) == element.atomicNumber >= 89 /\ element.atomicNumber <= 103

\* mutant of HasGridPosition: element.group || element.period
HasGroupOrPeriod(element) == element.group # Absent \/ element.period # Absent

\* element.group && element.period
HasGridPosition(element) == element.group # Absent /\ element.period # Absent

\* mutant of PlaceElement: the group/period test comes first
PlaceElementGridFirst(acc, element, build) ==
  IF element.group # Absent /\ element.period # Absent
  THEN [acc EXCEPT !.mainTable =
          Append(@, [createCell(element, build) EXCEPT !.gridColumn = element.group,
                                                       !.gridRow = element.period])]
  ELSE IF element.atomicNumber >= 57 /\ element.atomicNumber <= 71
  THEN [acc EXCEPT !.lanthanidesRow = Append(@, createCell(element, build))]
  ELSE IF element.atomicNumber >= 89 /\ element.atomicNumber <= 103
  THEN [acc EXCEPT !.actinidesRow = Append(@, createCell(element, build))]
  ELSE acc

\* one iteration of the forEach of lines 26-45
PlaceElement(acc, element, build) ==
  IF IsLanthanide(element)
  THEN [acc EXCEPT !.lanthanidesRow = Append(@, createCell(element, build))]
  ELSE IF IsActinide(element)
  THEN [acc EXCEPT !.actinidesRow = Append(@, createCell(element, build))]
  ELSE IF HasGridPosition(element)
  THEN [acc EXCEPT !.mainTable =
          Append(@, [createCell(element, build) EXCEPT !.gridColumn = element.group,
                                                       !.gridRow = element.period])]
  ELSE acc

RECURSIVE PlaceAll(_, _, _)
PlaceAll(acc, elementsArray, build) ==
  IF elementsArray = <<>> THEN acc
  ELSE PlaceAll(PlaceElement(acc, Head(elementsArray), build), Tail(elementsArray), build)

\* mutant of ClearSurfaces: the previous content is kept
ClearSurfacesSkipped(dom) == dom

\* mainTable.innerHTML = ''; seriesContainer.innerHTML = ''
ClearSurfaces(dom) == [mainTable |-> <<>>, seriesContainer |-> <<>>]

\* mutant of AttachRows: both rows are appended, empty or not
AttachRowsAlways(acc) ==
  [mainTable |-> acc.mainTable,
   seriesContainer |-> acc.seriesContainer \o <<acc.lanthanidesRow, acc.actinidesRow>>]

\* lines 47-52: a row is appended only when it has children
AttachRows(acc) ==
  [mainTable |-> acc.mainTable,
   seriesContainer |->
     acc.seriesContainer
       \o (IF Len(acc.lanthanidesRow) > 0 THEN <<acc.lanthanidesRow>> ELSE <<>>)
       \o (IF Len(acc.actinidesRow) > 0 THEN <<acc.actinidesRow>> ELSE <<>>)]

\* lines 12-52 of buildPeriodicTable for the array that sort left
RenderSorted(dom, elementsArray, build) ==
  AttachRows(
    PlaceAll([mainTable |-> ClearSurfaces(dom).mainTable,
              seriesContainer |-> ClearSurfaces(dom).seriesContainer,
              lanthanidesRow |-> <<>>, actinidesRow |-> <<>>],
             elementsArray, build))

\* buildPeriodicTable(elementsData) on the surfaces `dom`, when both exist
\* and every atomic number is present
buildPeriodicTable(dom, elements, build) ==
  RenderSorted(dom, SortElements(elements), build)

RECURSIVE Flatten(_)
Flatten(rows) == IF rows = <<>> THEN <<>> ELSE Head(rows) \o Flatten(Tail(rows))

\* document.querySelectorAll(".element-cell")
QueryAllCells(dom) == dom.mainTable \o Flatten(dom.seriesContainer)

\* ------------------------------------------------------------------- state
VARIABLES
  files,            \* what the two JSON files hold (fixed for the session)
  fetchState,       \* per fetch: pending, ok, notOk (HTTP error) or rejected
  pc,               \* position of the DOMContentLoaded handler of app.js
  body,             \* "page", or "error" once document.body was replaced
  document,         \* ids of the surfaces present in the document
  elementsData,     \* window.elementsData
  aliasesData,      \* window.aliasesData
  dom,              \* children of #periodicTable and of #seriesContainer
  buildCalls,       \* number of calls of buildPeriodicTable so far
  initSearchCalls,  \* number of calls of initSearch so far
  searchReady,      \* the input and click listeners of initSearch exist
  allCells,         \* the array captured by those listeners
  searchValue,      \* searchInput.value
  normalizedQuery,  \* normalizedQuery of the last performSmartSearch call
  noMatch,          \* cells whose classList holds "search-no-match"
  thrown,           \* an exception has left buildPeriodicTable, initSearch
                    \* or performSmartSearch
  detailCallback,   \* typeof window.openDetailPanel === 'function'
  clicks,           \* the cells clicked so far, in order
  detailCalls,      \* the arguments window.openDetailPanel was called with
  panelSurfaces,    \* which of #detailPanel and its .detail-content the markup has
  panelHidden,      \* detailPanel.classList holds "hidden"
  panelContent,     \* the element whose record .detail-content shows
  lastEvent         \* the last click on a cell or on the panel, or Escape press

\* what the click listeners of the cells and the panel read and write
detailVars == <<detailCallback, clicks, detailCalls, panelSurfaces, panelHidden,
                panelContent, lastEvent>>

vars == <<files, fetchState, pc, body, document, elementsData, aliasesData, dom,
          buildCalls, initSearchCalls, searchReady, allCells, searchValue,
          normalizedQuery, noMatch, thrown, detailCallback, clicks, detailCalls,
          panelSurfaces, panelHidden, panelContent, lastEvent>>

PanelIds == {"detailPanel", "detailContent"}

\* .detail-content as the markup left it
NoContent == [type |-> "markup"]

FetchNames == {"elements", "aliases"}

EmptyDom == [mainTable |-> <<>>, seriesContainer |-> <<>>]

\* a cell written in the markup of the page
MarkupCell ==
  [symbol |-> "H", atomicNumber |-> 1, gridColumn |-> Absent, gridRow |-> Absent,
   build |-> 0,
   element |-> [symbol |-> "H", atomicNumber |-> 1, group |-> 1, period |-> 1,
                category |-> Undefined, uses |-> List(2)]]

\* containers that are empty or hold a cell of the markup when the script starts
MarkupDoms ==
  [mainTable : {<<>>, <<MarkupCell>>}, seriesContainer : {<<>>, << <<MarkupCell>> >>}]

\* the markup of the page may leave children in a container that exists
DomFits(d, doc) ==
  /\ ("periodicTable" \notin doc => d.mainTable = <<>>)
  /\ ("seriesContainer" \notin doc => d.seriesContainer = <<>>)

\* the state when DOMContentLoaded fires and both fetches have been issued
InitWith(elementInputs, aliasInputs, domInputs, callbackInputs, panelInputs, hiddenInputs) ==
  /\ files \in [elements : elementInputs, aliases : aliasInputs,
                wellFormed : [FetchNames -> BOOLEAN]]
  /\ fetchState = [f \in FetchNames |-> "pending"]
  /\ pc = "awaitFetches"
  /\ body = "page"
  /\ document \in SUBSET SurfaceIds
  /\ elementsData = <<>>
  /\ aliasesData = <<>>
  /\ dom \in {d \in domInputs : DomFits(d, document)}
  /\ buildCalls = 0
  /\ initSearchCalls = 0
  /\ searchReady = FALSE
  /\ allCells = <<>>
  /\ searchValue = <<>>
  /\ normalizedQuery = <<>>
  /\ noMatch = {}
  /\ thrown = FALSE
  /\ detailCallback \in callbackInputs
  /\ clicks = <<>>
  /\ detailCalls = <<>>
  /\ panelSurfaces \in panelInputs
  /\ panelHidden \in hiddenInputs
  /\ panelContent = NoContent
  /\ lastEvent = "none"

\* mutant of BuildAborts: the call goes on when one container exists
BuildAbortsBothMissing ==
  "periodicTable" \notin document /\ "seriesContainer" \notin document

\* lines 4-10 of buildPeriodicTable: !mainTable || !seriesContainer
BuildAborts ==
  "periodicTable" \notin document \/ "seriesContainer" \notin document

\* elements of the sorted array whose createCell call fails
ThrowingElements(elementsArray) ==
  {i \in 1..Len(elementsArray) : createCellThrows(elementsArray[i])}

\* buildPeriodicTable does not return normally: innerHTML is set on a
\* container that does not exist (lines 12-13), or createCell fails (line 27)
buildPeriodicTableThrows(elementsArray) ==
  /\ ~BuildAborts
  /\ \/ "periodicTable" \notin document
     \/ "seriesContainer" \notin document
     \/ ThrowingElements(elementsArray) # {}

\* what a call of buildPeriodicTable leaves in the containers, for the array
\* that sort left: nothing new when it aborts, what was done before the
\* failing statement when it fails, the whole table otherwise
BuildCall(d, elementsArray, build) ==
  IF BuildAborts \/ "periodicTable" \notin document THEN d
  ELSE IF "seriesContainer" \notin document THEN [d EXCEPT !.mainTable = <<>>]
  ELSE IF ThrowingElements(elementsArray) # {}
  THEN LET first == CHOOSE i \in ThrowingElements(elementsArray) :
                      \A j \in ThrowingElements(elementsArray) : i <= j
           acc == PlaceAll([mainTable |-> ClearSurfaces(d).mainTable,
                            seriesContainer |-> ClearSurfaces(d).seriesContainer,
                            lanthanidesRow |-> <<>>, actinidesRow |-> <<>>],
                           SubSeq(elementsArray, 1, first - 1), build)
       IN [mainTable |-> acc.mainTable, seriesContainer |-> acc.seriesContainer]
  ELSE RenderSorted(d, elementsArray, build)

\* mutant of InitSearchRegisters: the clear button is not looked for
InitSearchRegistersInputOnly(d) ==
  /\ "searchInput" \in document
  /\ Len(QueryAllCells(d)) # 0

\* initSearch(aliasesData) run against the rendered surfaces `d`:
\* the listeners are registered only when both controls and a cell exist
InitSearchRegisters(d) ==
  /\ "searchInput" \in document
  /\ "clearSearch" \in document
  /\ Len(QueryAllCells(d)) # 0

\* initSearch does not return normally: addEventListener is called on a
\* control that does not exist (lines 122 and 127)
initSearchThrows(d) ==
  /\ InitSearchRegisters(d)
  /\ ("searchInput" \notin document \/ "clearSearch" \notin document)

\* the catch block of app.js: the body is replaced by the error message
CatchError ==
  /\ pc' = "error"
  /\ body' = "error"
  /\ document' = {}
  /\ UNCHANGED <<files, elementsData, aliasesData, dom, buildCalls, initSearchCalls,
                 searchReady, allCells, searchValue, normalizedQuery, noMatch, thrown,
                 detailVars>>

\* the network settles one fetch
FetchSettles(f, outcome) ==
  /\ fetchState[f] = "pending"
  /\ fetchState' = [fetchState EXCEPT ![f] = outcome]
  /\ UNCHANGED <<files, pc, body, document, elementsData, aliasesData, dom, buildCalls,
                 initSearchCalls, searchReady, allCells, searchValue, normalizedQuery,
                 noMatch, thrown, detailVars>>

\* Promise.all rejects as soon as one fetch has rejected
PromiseAllRejects ==
  /\ pc = "awaitFetches"
  /\ \E f \in FetchNames : fetchState[f] = "rejected"
  /\ CatchError
  /\ UNCHANGED fetchState

\* mutant of PromiseAllResolves: response.ok is not looked at
PromiseAllResolvesUnchecked ==
  /\ pc = "awaitFetches"
  /\ \A f \in FetchNames : fetchState[f] \in {"ok", "notOk"}
  /\ pc' = "awaitElementsJson"
  /\ UNCHANGED <<files, fetchState, body, document, elementsData, aliasesData, dom,
                 buildCalls, initSearchCalls, searchReady, allCells, searchValue,
                 normalizedQuery, noMatch, thrown, detailVars>>

\* Promise.all resolves once both fetches have a response; lines 11-15
PromiseAllResolves ==
  /\ pc = "awaitFetches"
  /\ \A f \in FetchNames : fetchState[f] \in {"ok", "notOk"}
  /\ IF \E f \in FetchNames : fetchState[f] = "notOk"
     THEN CatchError
     ELSE /\ pc' = "awaitElementsJson"
          /\ UNCHANGED <<files, body, document, elementsData, aliasesData, dom,
                         buildCalls, initSearchCalls, searchReady, allCells,
                         searchValue, normalizedQuery, noMatch, thrown, detailVars>>
  /\ UNCHANGED fetchState

\* elementsResponse.json() settles; line 16 starts
ElementsJsonSettles ==
  /\ pc = "awaitElementsJson"
  /\ IF files.wellFormed["elements"]
     THEN /\ pc' = "awaitAliasesJson"
          /\ UNCHANGED <<files, body, document, elementsData, aliasesData, dom,
                         buildCalls, initSearchCalls, searchReady, allCells,
                         searchValue, normalizedQuery, noMatch, thrown, detailVars>>
     ELSE CatchError
  /\ UNCHANGED fetchState

\* aliasesResponse.json() settles; lines 18-27 run without interruption
AliasesJsonSettles ==
  /\ pc = "awaitAliasesJson"
  /\ IF files.wellFormed["aliases"]
     THEN \E elementsArray \in SortOutcomes(files.elements) :
          /\ elementsData' = files.elements
          /\ aliasesData' = files.aliases
          /\ dom' = BuildCall(dom, elementsArray, buildCalls + 1)
          /\ buildCalls' = buildCalls + 1
          /\ IF buildPeriodicTableThrows(elementsArray)
             THEN /\ thrown' = TRUE
                  /\ pc' = "error"
                  /\ body' = "error"
                  /\ document' = {}
                  /\ UNCHANGED <<initSearchCalls, searchReady, allCells>>
             ELSE /\ initSearchCalls' = initSearchCalls + 1
                  /\ searchReady' = InitSearchRegisters(dom')
                  /\ allCells' = IF InitSearchRegisters(dom')
                                 THEN QueryAllCells(dom') ELSE <<>>
                  /\ IF initSearchThrows(dom')
                     THEN /\ thrown' = TRUE
                          /\ pc' = "error"
                          /\ body' = "error"
                          /\ document' = {}
                     ELSE /\ pc' = "done"
                          /\ UNCHANGED <<body, document, thrown>>
          /\ UNCHANGED <<files, searchValue, normalizedQuery, noMatch, detailVars>>
     ELSE CatchError
  /\ UNCHANGED fetchState

\* the input listener of initSearch (lines 122-125)
InputEvent(query) ==
  /\ searchReady
  /\ "searchInput" \in document
  /\ searchValue' = query
  /\ normalizedQuery' = normalizeString(query)
  /\ noMatch' = performSmartSearch(query, aliasesData,
                                   CellsVisited(query, aliasesData, allCells), noMatch)
  /\ thrown' = (thrown \/ performSmartSearchThrows(query, aliasesData, allCells))
  /\ dom' = ToggleClasses(dom, noMatch')
  /\ UNCHANGED <<files, fetchState, pc, body, document, elementsData, aliasesData,
                 buildCalls, initSearchCalls, searchReady, allCells, detailVars>>

\* the click listener of the clear button (lines 127-131)
ClearClick ==
  /\ searchReady
  /\ "clearSearch" \in document
  /\ searchValue' = <<>>
  /\ noMatch' = resetSearch(allCells, noMatch)
  /\ dom' = ToggleClasses(dom, noMatch')
  /\ UNCHANGED <<files, fetchState, pc, body, document, elementsData, aliasesData,
                 buildCalls, initSearchCalls, searchReady, allCells, normalizedQuery,
                 thrown, detailVars>>

\* buildPeriodicTable(window.elementsData) called again after startup
Rebuild ==
  /\ pc = "done"
  /\ buildCalls < MaxBuilds
  /\ \E elementsArray \in SortOutcomes(elementsData) :
       /\ dom' = BuildCall(dom, elementsArray, buildCalls + 1)
       /\ thrown' = (thrown \/ buildPeriodicTableThrows(elementsArray))
  /\ buildCalls' = buildCalls + 1
  /\ UNCHANGED <<files, fetchState, pc, body, document, elementsData, aliasesData,
                 initSearchCalls, searchReady, allCells, searchValue, normalizedQuery,
                 noMatch, detailVars>>

\* a click on a cell that buildPeriodicTable created and that is displayed
CellClick(i) ==
  /\ body = "page"
  /\ Len(clicks) < MaxClicks
  /\ i \in 1..Len(QueryAllCells(dom))
  /\ QueryAllCells(dom)[i].build >= 1
  /\ clicks' = Append(clicks, QueryAllCells(dom)[i])
  /\ detailCalls' = clickListener(QueryAllCells(dom)[i], detailCallback, detailCalls)
  /\ IF detailCallback
     THEN LET panel == openDetailPanel(QueryAllCells(dom)[i].element, panelSurfaces,
                                       body = "page", panelHidden, panelContent)
          IN panelHidden' = panel.hidden /\ panelContent' = panel.content
     ELSE UNCHANGED <<panelHidden, panelContent>>
  /\ lastEvent' = "cell"
  /\ UNCHANGED <<files, fetchState, pc, body, document, elementsData, aliasesData, dom,
                 buildCalls, initSearchCalls, searchReady, allCells, searchValue,
                 normalizedQuery, noMatch, thrown, detailCallback, panelSurfaces>>

\* the DOMContentLoaded handler of detail-panel.js has registered its
\* listeners: the script is loaded and #detailPanel was found (lines 90-93)
PanelListeners == detailCallback /\ "detailPanel" \in panelSurfaces

\* what a panel event leaves alone
PanelEventFrame ==
  UNCHANGED <<files, fetchState, pc, body, document, elementsData, aliasesData, dom,
              buildCalls, initSearchCalls, searchReady, allCells, searchValue,
              normalizedQuery, noMatch, thrown, detailCallback, clicks, detailCalls,
              panelSurfaces, panelContent>>

\* a click on the button #closeDetail that openDetailPanel wrote (lines 95-99)
CloseButtonClick ==
  /\ PanelListeners
  /\ body = "page"
  /\ panelContent # NoContent
  /\ panelHidden' = closeDetailPanel(panelSurfaces, body = "page", panelHidden)
  /\ lastEvent' = "close"
  /\ PanelEventFrame

\* a click on the panel itself, outside its content (lines 101-105)
BackdropClick ==
  /\ PanelListeners
  /\ body = "page"
  /\ panelHidden' = closeDetailPanel(panelSurfaces, body = "page", panelHidden)
  /\ lastEvent' = "backdrop"
  /\ PanelEventFrame

\* keydown with key Escape (lines 107-111)
EscapeKey ==
  /\ PanelListeners
  /\ panelHidden' = IF ~panelHidden
                    THEN closeDetailPanel(panelSurfaces, body = "page", panelHidden)
                    ELSE panelHidden
  /\ lastEvent' = "escape"
  /\ PanelEventFrame

Startup ==
  \/ \E f \in FetchNames, outcome \in {"ok", "notOk", "rejected"} : FetchSettles(f, outcome)
  \/ PromiseAllRejects
  \/ PromiseAllResolves
  \/ ElementsJsonSettles
  \/ AliasesJsonSettles

\* ------------------------------------------------------------ specifications
\* the elements files used when the search is explored
SearchElementInputs ==
  { << [symbol |-> "La", atomicNumber |-> 57, group |-> Absent, period |-> 6,
        category |-> Text("lanthanide"), uses |-> List(2)],
       [symbol |-> "H",  atomicNumber |-> 1,  group |-> 1,      period |-> 1,
        category |-> Text("nonmetal"), uses |-> List(2)],
       [symbol |-> "Ba", atomicNumber |-> 56, group |-> 2,      period |-> 6,
        category |-> Text("alkaline earth metal"), uses |-> List(2)] >>,
    << [symbol |-> "Ac",  atomicNumber |-> 89,  group |-> Absent, period |-> Absent,
        category |-> Text("actinide"), uses |-> List(2)],
       [symbol |-> "Lu",  atomicNumber |-> 71,  group |-> 3,      period |-> 6,
        category |-> Text("lanthanide"), uses |-> List(2)],
       [symbol |-> "Uue", atomicNumber |-> 119, group |-> Absent, period |-> 8,
        category |-> Text("unknown"), uses |-> List(2)],
       [symbol |-> "H",   atomicNumber |-> 1,   group |-> 1,      period |-> 1,
        category |-> Text("nonmetal"), uses |-> List(2)] >>,
    << >> }

\* the query typed when the table building is explored
BuildQueries == {<<104>>, <<32>>}

\* the page with every query, over a few elements files
Init == InitWith(SearchElementInputs, AliasInputs, {EmptyDom}, {TRUE}, {{}}, {TRUE})

Next ==
  \/ Startup
  \/ \E query \in Queries : InputEvent(query)
  \/ ClearClick
  \/ Rebuild

Spec == Init /\ [][Next]_vars

\* the page with every elements file in every iteration order, over a few queries
InitBuild == InitWith(ElementInputs, AliasInputs, {EmptyDom}, {TRUE}, {{}}, {TRUE})

NextBuild ==
  \/ Startup
  \/ \E query \in BuildQueries : InputEvent(query)
  \/ ClearClick
  \/ Rebuild

SpecBuild == InitBuild /\ [][NextBuild]_vars

\* the page over elements files with missing attributes and containers
\* that may hold markup
InitRobust == InitWith(RobustElementInputs, AliasInputs, MarkupDoms, {TRUE}, {{}}, {TRUE})

SpecRobust == InitRobust /\ [][NextBuild]_vars

\* the page with clicks on cells, with and without window.openDetailPanel
InitDetail == InitWith(SearchElementInputs, AliasInputs, {EmptyDom}, BOOLEAN, {{}}, {TRUE})

NextDetail ==
  \/ Startup
  \/ \E i \in 1..(MaxElems + 1) : CellClick(i)
  \/ Rebuild

SpecDetail == InitDetail /\ [][NextDetail]_vars

\* the page with the detail panel: clicks on cells and on the panel, Escape
InitPanel ==
  InitWith(SearchElementInputs, {CHOOSE a \in AliasInputs : "Ba" \in DOMAIN a},
           {EmptyDom}, BOOLEAN, SUBSET PanelIds, BOOLEAN)

NextPanel ==
  \/ Startup
  \/ \E i \in 1..(MaxElems + 1) : CellClick(i)
  \/ CloseButtonClick
  \/ BackdropClick
  \/ EscapeKey
  \/ Rebuild

SpecPanel == InitPanel /\ [][NextPanel]_vars

\* the startup with the scheduling the browser provides: promise continuations
\* are run by the event loop and every fetch is settled by the network stack
SpecLive == Init /\ [][Next]_vars /\ WF_vars(Startup)

\* ------------------------------------------------------------------- claims
\* both containers of the table are in the document
SurfacesPresent == "periodicTable" \in document /\ "seriesContainer" \in document

\* buildPeriodicTable has run on existing containers
Built == buildCalls >= 1 /\ SurfacesPresent

\* the cells of the main grid followed by those of the series rows
Rendered == QueryAllCells(dom)

\* p is a leading part of s, character by character
IsPrefixOf(p, s) == Len(p) <= Len(s) /\ \A j \in 1..Len(p) : s[j] = p[j]

\* C1: after a search with a query whose normalized form is not empty, a cell
\* is matched exactly when its symbol has an alias whose normalized form
\* begins with the normalized query; without an alias entry it is unmatched.
C1_PrefixMatch ==
  (searchReady /\ normalizeString(searchValue) # <<>>) =>
    \A i \in 1..Len(allCells) :
      (allCells[i] \notin noMatch) <=>
        /\ allCells[i].symbol \in DOMAIN aliasesData
        /\ \E k \in 1..Len(aliasesData[allCells[i].symbol]) :
             IsPrefixOf(normalizeString(searchValue),
                        normalizeString(aliasesData[allCells[i].symbol][k]))

\* query "7": Ba (alias "7") is matched, H (alias "H7", where 7 is inside but
\* not in front) is not
C1_Witness ==
  /\ searchReady
  /\ searchValue = <<55>>
  /\ \E c \in Range(allCells) : c.symbol = "Ba" /\ c \notin noMatch
  /\ \E c \in Range(allCells) : c.symbol = "H" /\ c \in noMatch
  /\ aliasesData["H"] = << <<72, 55>>, <<32, 104, 32>> >>

\* lower-casing and whitespace removal, one character at a time
RECURSIVE LowerStrip(_)
LowerStrip(s) ==
  IF s = <<>> THEN <<>>
  ELSE (IF Head(s) \in {9, 10, 11, 12, 13, 32, 160} THEN <<>>
        ELSE IF Head(s) \in 65..90 THEN <<Head(s) + 32>>
        ELSE <<Head(s)>>) \o LowerStrip(Tail(s))

\* Arabic-Indic digits U+0660..U+0669 written as the ASCII digit of the same value
ArabicIndicToAscii(s) ==
  [i \in 1..Len(s) |-> IF s[i] \in 1632..1641 THEN s[i] - 1632 + 48 ELSE s[i]]

HasPersianDigit(s) == \E i \in 1..Len(s) : s[i] \in 1776..1785

\* C2 as stated: the normalized query is the query lower-cased, without
\* whitespace and with every Arabic-Indic digit replaced by its ASCII digit
\* (queries holding Persian digits are left aside).
C2_Original ==
  (searchReady /\ searchValue # <<>> /\ ~HasPersianDigit(searchValue)) =>
    normalizedQuery = ArabicIndicToAscii(LowerStrip(searchValue))

\* C2 as amended: the normalized query is the query lower-cased and without
\* whitespace; Arabic-Indic digits U+0660..U+0669 stay as they are (queries
\* holding Persian digits are left aside).
C2_LowerStripOnly ==
  (searchReady /\ searchValue # <<>> /\ ~HasPersianDigit(searchValue)) =>
    normalizedQuery = LowerStrip(searchValue)

\* the query "٧H" was normalized: the letter is lower-cased, the digit kept
C2_Witness ==
  /\ searchReady
  /\ searchValue = <<1639, 72>>
  /\ normalizedQuery = <<1639, 104>>

\* number of rendered cells that show atomic number n
CellsOf(n) == Cardinality({i \in 1..Len(Rendered) : Rendered[i].atomicNumber = n})

\* C3: after a build the main grid and the series container hold exactly one
\* cell for each element with a group and a period, one for each element
\* numbered 57..71, one for each numbered 89..103, and nothing else.
C3_OneCellPerElement ==
  Built =>
    /\ \A e \in Range(elementsData) :
         CellsOf(e.atomicNumber) =
           IF \/ (e.group # Absent /\ e.period # Absent)
              \/ e.atomicNumber \in 57..71
              \/ e.atomicNumber \in 89..103
           THEN 1 ELSE 0
    /\ \A i \in 1..Len(Rendered) :
         \E e \in Range(elementsData) :
            e.atomicNumber = Rendered[i].atomicNumber /\ e.symbol = Rendered[i].symbol

\* three elements were given and two cells rendered: one element (neither
\* f-block nor with both group and period) got none
C3_Witness ==
  /\ Built
  /\ Len(elementsData) = 3
  /\ Len(Rendered) = 2
  /\ Len(dom.mainTable) = 1
  /\ \E e \in Range(elementsData) : CellsOf(e.atomicNumber) = 0

\* the cells of the main grid / of the series rows that show element e
InMain(e) == {i \in 1..Len(dom.mainTable) : dom.mainTable[i].atomicNumber = e.atomicNumber}

InRow(e, r) == {i \in 1..Len(r) : r[i].atomicNumber = e.atomicNumber}

\* e has a cell in a series row that holds only atomic numbers lo..hi
InSeriesRow(e, lo, hi) ==
  \E k \in 1..Len(dom.seriesContainer) :
     /\ InRow(e, dom.seriesContainer[k]) # {}
     /\ \A i \in 1..Len(dom.seriesContainer[k]) :
           dom.seriesContainer[k][i].atomicNumber \in lo..hi

InNoSeriesRow(e) ==
  \A k \in 1..Len(dom.seriesContainer) : InRow(e, dom.seriesContainer[k]) = {}

\* C4: an element numbered 57..71 goes to the lanthanide row; otherwise one
\* numbered 89..103 goes to the actinide row; otherwise one with group and
\* period goes to the main grid at column group, row period; otherwise it
\* is placed nowhere.
C4_Routing ==
  Built =>
    \A e \in Range(elementsData) :
      IF e.atomicNumber \in 57..71
      THEN InSeriesRow(e, 57, 71) /\ InMain(e) = {}
      ELSE IF e.atomicNumber \in 89..103
      THEN InSeriesRow(e, 89, 103) /\ InMain(e) = {}
      ELSE IF e.group # Absent /\ e.period # Absent
      THEN /\ InNoSeriesRow(e)
           /\ InMain(e) # {}
           /\ \A i \in InMain(e) : /\ dom.mainTable[i].gridColumn = e.group
                                   /\ dom.mainTable[i].gridRow = e.period
      ELSE InNoSeriesRow(e) /\ InMain(e) = {}

\* an f-block element with a group sits in its row, one without group and
\* period too, and a main-group element sits in the grid
C4_Witness ==
  /\ Built
  /\ \E e \in Range(elementsData) :
        e.atomicNumber \in 57..71 /\ e.group # Absent /\ InSeriesRow(e, 57, 71)
  /\ \E e \in Range(elementsData) :
        e.atomicNumber \in 89..103 /\ e.group = Absent /\ e.period = Absent
           /\ InSeriesRow(e, 89, 103)
  /\ Len(dom.mainTable) = 1

\* C5: the rendered state is the same for every iteration order of the same
\* elements.
C5_OrderIndependent ==
  Built =>
    \A p \in OrderingsOf(Range(elementsData)) :
       buildPeriodicTable(EmptyDom, p, buildCalls) = dom

\* the file listed its elements out of atomic-number order
C5_Witness ==
  /\ Built
  /\ Len(elementsData) = 3
  /\ elementsData[1].atomicNumber > elementsData[2].atomicNumber
  /\ elementsData[2].atomicNumber > elementsData[3].atomicNumber
  /\ Len(dom.mainTable) = 2

\* C6: every series row lists its cells in strictly ascending atomic number.
C6_RowsAscending ==
  Built =>
    \A k \in 1..Len(dom.seriesContainer) :
      \A i, j \in 1..Len(dom.seriesContainer[k]) :
         i < j => dom.seriesContainer[k][i].atomicNumber < dom.seriesContainer[k][j].atomicNumber

\* Lu came before La in the file; the row shows La, then Lu
C6_Witness ==
  /\ Built
  /\ \E i, j \in 1..Len(elementsData) :
        i < j /\ elementsData[i].atomicNumber = 71 /\ elementsData[j].atomicNumber = 57
  /\ \E k \in 1..Len(dom.seriesContainer) :
        /\ Len(dom.seriesContainer[k]) = 2
        /\ dom.seriesContainer[k][1].atomicNumber = 57
        /\ dom.seriesContainer[k][2].atomicNumber = 71

\* a cell without the identity of its DOM node
Shown(cell) ==
  [symbol |-> cell.symbol, atomicNumber |-> cell.atomicNumber,
   gridColumn |-> cell.gridColumn, gridRow |-> cell.gridRow]

ShownRow(r) == [i \in 1..Len(r) |-> Shown(r[i])]

ShownDom(d) ==
  [mainTable |-> ShownRow(d.mainTable),
   seriesContainer |-> [k \in 1..Len(d.seriesContainer) |-> ShownRow(d.seriesContainer[k])]]

\* C7: after any number of builds the surfaces show what one build on empty
\* surfaces shows: the same cells in the same places, none twice, and at
\* most one row per series.
C7_Idempotent ==
  Built =>
    /\ ShownDom(dom) = ShownDom(buildPeriodicTable(EmptyDom, elementsData, 1))
    /\ \A i, j \in 1..Len(Rendered) :
          Rendered[i].atomicNumber = Rendered[j].atomicNumber => i = j
    /\ Len(dom.seriesContainer) <= 2

\* the table was built twice and shows cells in the grid and in both rows
C7_Witness ==
  /\ Built
  /\ buildCalls >= 2
  /\ Len(dom.mainTable) = 1
  /\ Len(dom.seriesContainer) = 2

HasLanthanide == \E e \in Range(elementsData) : e.atomicNumber \in 57..71

HasActinide == \E e \in Range(elementsData) : e.atomicNumber \in 89..103

\* the rows of the series container that hold a cell numbered lo..hi
RowsWith(lo, hi) ==
  {k \in 1..Len(dom.seriesContainer) :
     \E i \in 1..Len(dom.seriesContainer[k]) :
        dom.seriesContainer[k][i].atomicNumber \in lo..hi}

\* C8: the lanthanide row is attached exactly when an element numbered 57..71
\* was rendered, the actinide row exactly when one numbered 89..103 was; no
\* attached row is empty; the lanthanide row comes first.
C8_RowsAttached ==
  Built =>
    /\ Len(dom.seriesContainer) =
         (IF HasLanthanide THEN 1 ELSE 0) + (IF HasActinide THEN 1 ELSE 0)
    /\ \A k \in 1..Len(dom.seriesContainer) : Len(dom.seriesContainer[k]) > 0
    /\ HasLanthanide => RowsWith(57, 71) = {1}
    /\ HasActinide => RowsWith(89, 103) = {Len(dom.seriesContainer)}

\* only an actinide was given: one row, and it is the actinide row
C8_Witness ==
  /\ Built
  /\ ~HasLanthanide
  /\ HasActinide
  /\ Len(elementsData) = 3
  /\ Len(dom.seriesContainer) = 1
  /\ RowsWith(89, 103) = {1}

\* both series were given: the lanthanide row precedes the actinide row
C8_WitnessBoth ==
  /\ Built
  /\ RowsWith(57, 71) = {1}
  /\ RowsWith(89, 103) = {2}

\* C9: whenever the query in force normalizes to the empty string, no cell
\* carries the search-no-match flag, whatever was searched before.
C9_EmptyQueryResets ==
  (searchReady /\ normalizeString(searchValue) = <<>>) => noMatch = {}

\* a query of one blank was applied to a table with cells: all are matched
C9_Witness ==
  /\ searchReady
  /\ searchValue = <<32>>
  /\ Len(allCells) >= 2
  /\ \A c \in Range(allCells) : c \notin noMatch

SomeFetchFailed == \E f \in FetchNames : fetchState[f] \in {"notOk", "rejected"}

\* C10: the table is built only when both fetches succeeded; once a fetch
\* has failed or returned a non-success status nothing is ever built,
\* initSearch is never called and nothing is rendered, the page reaches the
\* error state and stays in it; a settled fetch is never issued again.
C10_StartupAllOrNothing ==
  /\ [](buildCalls >= 1 => \A f \in FetchNames : fetchState[f] = "ok")
  /\ [](SomeFetchFailed =>
          /\ buildCalls = 0
          /\ initSearchCalls = 0
          /\ Rendered = <<>>
          /\ pc \in {"awaitFetches", "error"})
  /\ [](pc = "error" <=> body = "error")
  /\ (SomeFetchFailed ~> [](body = "error"))
  /\ [][\A f \in FetchNames :
          fetchState[f] # "pending" => fetchState'[f] = fetchState[f]]_vars

\* the aliases fetch returned 404 after the elements fetch had succeeded, and
\* the page shows the error
C10_Witness ==
  /\ fetchState["elements"] = "ok"
  /\ fetchState["aliases"] = "notOk"
  /\ body = "error"
  /\ buildCalls = 0

\* both fetches succeeded and the table was built
C10_WitnessBuilt ==
  /\ \A f \in FetchNames : fetchState[f] = "ok"
  /\ Built
  /\ Len(Rendered) >= 2

\* a fetch failed or a file is not JSON
StartupFails == SomeFetchFailed \/ \E f \in FetchNames : ~files.wellFormed[f]

\* C11: whatever the elements file and the alias table hold (elements without
\* symbol, atomic number, group, period or category, symbols the alias table
\* does not know) and whichever surfaces exist, no exception leaves
\* buildPeriodicTable, initSearch or performSmartSearch; the page shows the
\* error only when a fetch failed or a file could not be parsed.
C11_NoThrow ==
  /\ thrown = FALSE
  /\ body = "error" => StartupFails

\* the table was built twice from records without category, symbol and atomic
\* number and searched with "h"; a cell has a symbol without aliases
C11_Witness ==
  /\ ~thrown
  /\ buildCalls = 2
  /\ searchReady
  /\ searchValue = <<104>>
  /\ \E e \in Range(elementsData) : e.category = Undefined
  /\ \E e \in Range(elementsData) : e.atomicNumber = Absent
  /\ \E c \in Range(allCells) : c.symbol \notin DOMAIN aliasesData /\ c \in noMatch

\* buildPeriodicTable was called on a page without the main grid
C11_WitnessNoSurface ==
  /\ ~thrown
  /\ buildCalls = 2
  /\ body = "page"
  /\ "periodicTable" \notin document
  /\ elementsData # <<>>

\* C12: a call of buildPeriodicTable made while the main grid or the series
\* container is absent changes nothing: the containers keep their children,
\* no flag changes, no exception is raised and the caller goes on.
C12_AbortWithoutEffect ==
  [][(buildCalls' # buildCalls /\ ~SurfacesPresent) =>
       /\ dom' = dom
       /\ noMatch' = noMatch
       /\ thrown' = FALSE
       /\ pc' = "done"]_vars

\* built twice without the series container: the main grid still holds the
\* cell of the markup
C12_Witness ==
  /\ buildCalls = 2
  /\ "periodicTable" \in document
  /\ "seriesContainer" \notin document
  /\ elementsData # <<>>
  /\ dom.mainTable = <<MarkupCell>>

\* C13: when the search input or the clear button is absent, or no cell is
\* rendered, the call of initSearch registers no listener, changes no flag
\* and raises nothing; the table that was just built is in the containers,
\* the startup ends normally, and no flag or query ever changes afterwards.
C13_InitSearchNoOp ==
  /\ [][(/\ initSearchCalls' # initSearchCalls
          /\ \/ "searchInput" \notin document
             \/ "clearSearch" \notin document
             \/ Rendered' = <<>>) =>
          /\ searchReady' = FALSE
          /\ noMatch' = noMatch
          /\ thrown' = FALSE
          /\ pc' = "done"
          /\ body' = "page"
          /\ SurfacesPresent =>
               \E elementsArray \in SortOutcomes(elementsData') :
                  dom' = RenderSorted(dom, elementsArray, buildCalls')]_vars
  /\ [](~searchReady => noMatch = {} /\ searchValue = <<>>)

\* the page has the search input but no clear button: the table is rendered
\* and the search is off
C13_Witness ==
  /\ pc = "done"
  /\ body = "page"
  /\ initSearchCalls = 1
  /\ ~searchReady
  /\ "searchInput" \in document
  /\ "clearSearch" \notin document
  /\ Built
  /\ Len(Rendered) >= 2

\* C14: each click on a rendered cell calls window.openDetailPanel once, with
\* the record of elementsData the cell was built from; while no such
\* function exists a click calls nothing and changes nothing.
C14_ClickOpensDetail ==
  /\ [](IF detailCallback
        THEN /\ Len(detailCalls) = Len(clicks)
             /\ \A k \in 1..Len(clicks) :
                  /\ detailCalls[k] \in Range(elementsData)
                  /\ detailCalls[k].atomicNumber = clicks[k].atomicNumber
                  /\ detailCalls[k].symbol = clicks[k].symbol
        ELSE detailCalls = <<>>)
  /\ [][(clicks' # clicks /\ ~detailCallback) =>
          UNCHANGED <<files, fetchState, pc, body, document, elementsData, aliasesData,
                      dom, buildCalls, initSearchCalls, searchReady, allCells,
                      searchValue, normalizedQuery, noMatch, thrown, detailCallback,
                      detailCalls, panelSurfaces, panelHidden, panelContent>>]_vars

\* two cells were clicked, of different elements, and the callback got the
\* two records in that order
C14_Witness ==
  /\ detailCallback
  /\ Len(clicks) = 2
  /\ clicks[1].atomicNumber # clicks[2].atomicNumber
  /\ Len(detailCalls) = 2
  /\ detailCalls[1].atomicNumber = clicks[1].atomicNumber
  /\ detailCalls[2].atomicNumber = clicks[2].atomicNumber

\* a cell was clicked while window.openDetailPanel did not exist
C14_WitnessNoCallback ==
  /\ ~detailCallback
  /\ Len(clicks) >= 1
  /\ detailCalls = <<>>

\* a step in which the search changed something it keeps
SearchStep ==
  searchValue' # searchValue \/ normalizedQuery' # normalizedQuery \/ noMatch' # noMatch

\* C15: filtering only toggles the flag of a cell: no step of the search adds,
\* removes, reorders or re-positions a cell, and whatever was searched the
\* containers hold the cells, in the order and at the grid positions, that
\* the last buildPeriodicTable call left.
C15_FilterKeepsCells ==
  /\ [][SearchStep => dom' = dom]_vars
  /\ [](Built => dom = buildPeriodicTable(EmptyDom, elementsData, buildCalls))

\* the query "7" has flagged one cell of three and left the others matched
C15_Witness ==
  /\ Built
  /\ searchValue = <<55>>
  /\ Len(Rendered) = 3
  /\ Cardinality(noMatch \cap Range(Rendered)) = 2

\* C16: after every search each cell of the search is matched or unmatched,
\* and which of the two is decided by the query in force and the alias table
\* alone: the flags are those the same query gives when nothing was searched
\* before.
C16_HistoryIndependent ==
  searchReady =>
    /\ noMatch \subseteq Range(allCells)
    /\ noMatch = performSmartSearch(searchValue, aliasesData, allCells, {})

\* the query "h" is in force; a cell is matched and another is not
C16_Witness ==
  /\ searchReady
  /\ searchValue = <<104>>
  /\ normalizedQuery = <<104>>
  /\ \E c \in Range(allCells) : c \in noMatch
  /\ \E c \in Range(allCells) : c \notin noMatch

\* Persian digits U+06F0..U+06F9 written as the ASCII digit of the same value
PersianToAscii(s) ==
  [i \in 1..Len(s) |-> IF s[i] \in 1776..1785 THEN s[i] - 1776 + 48 ELSE s[i]]

\* C17 as stated: the normalized query is the query lower-cased, without
\* whitespace and with every Persian digit replaced by the ASCII digit of the
\* same value.
C17_PersianDigitsKeepValue ==
  (searchReady /\ searchValue # <<>>) =>
    normalizedQuery = PersianToAscii(LowerStrip(searchValue))

\* p begins one of the normalized aliases of the symbol
HasAliasWithPrefix(symbol, p) ==
  /\ symbol \in DOMAIN aliasesData
  /\ \E k \in 1..Len(aliasesData[symbol]) :
       IsPrefixOf(p, normalizeString(aliasesData[symbol][k]))

\* C18 as stated: after an input event with query q every cell now in the
\* main grid or in a series row is matched exactly when normalize(q) is empty
\* or begins one of its normalized aliases, also when buildPeriodicTable ran
\* again after initSearch.
C18_SearchGovernsDisplayed ==
  [][(searchReady /\ searchValue' # searchValue /\ searchValue' # <<>>) =>
       \A i \in 1..Len(Rendered') :
          (Rendered'[i] \notin noMatch') <=>
             \/ normalizeString(searchValue') = <<>>
             \/ HasAliasWithPrefix(Rendered'[i].symbol, normalizeString(searchValue'))]_vars

\* C19: once the clear button was clicked the input is empty and no cell is
\* flagged, whatever query was in force; the input event that follows gives
\* the flags its query gives on a table nothing was searched in.
C19_ClearResets ==
  /\ []((searchReady /\ searchValue = <<>>) => noMatch = {})
  /\ [][(searchReady /\ searchValue = <<>> /\ searchValue' # <<>>) =>
          noMatch' = performSmartSearch(searchValue', aliasesData, allCells, {})]_vars

\* the clear button was clicked while the query "7" was in force: the input is
\* empty, the query last searched is still "7", every cell is matched
C19_Witness ==
  /\ searchReady
  /\ searchValue = <<>>
  /\ normalizedQuery = <<55>>
  /\ Len(allCells) >= 2
  /\ noMatch = {}

\* the strings with the normalized form of s
SameForm(s) == {t \in Queries : normalizeString(t) = normalizeString(s)}

\* normalizing a normalized string changes nothing, the flags a query gives
\* are those of every string with the same normalized form, and whether a
\* symbol matches is unchanged when one of its aliases is replaced by a string
\* with the same normalized form
NormalFormDecides ==
  searchReady =>
    /\ normalizeString(normalizedQuery) = normalizedQuery
    /\ normalizeString(normalizeString(searchValue)) = normalizeString(searchValue)
    /\ \A t \in SameForm(searchValue) :
         performSmartSearch(t, aliasesData, allCells, {}) = noMatch
    /\ \A symbol \in DOMAIN aliasesData :
         \A k \in 1..Len(aliasesData[symbol]) :
            \A t \in SameForm(aliasesData[symbol][k]) :
               isMatch([aliasesData EXCEPT ![symbol][k] = t], symbol,
                       normalizeString(searchValue))
                 <=> isMatch(aliasesData, symbol, normalizeString(searchValue))

\* s without its differences of case, whitespace and digit script
Canonical(s) == PersianToAscii(LowerStrip(s))

\* C20 as stated: normalizeString is idempotent, the result of a search is
\* the same for strings with the same normalized form, and it does not
\* depend on the case, the whitespace or the digit script of the query: two
\* queries that differ only in these give the same flags.
C20_ScriptInsensitive ==
  /\ NormalFormDecides
  /\ searchReady =>
       \A t \in Queries :
          Canonical(t) = Canonical(searchValue) =>
             performSmartSearch(t, aliasesData, allCells, {}) = noMatch

\* the detail panel and its content container are on the page, with the
\* script that opens the panel loaded
PanelPresent == detailCallback /\ PanelIds \subseteq panelSurfaces /\ body = "page"

\* C21: with the detail panel and its content container present, once a cell
\* was clicked, the close button or the backdrop was clicked, or Escape was
\* pressed, the panel is visible exactly when the last of these events was a
\* click on a cell; while visible it shows the record of the cell clicked
\* last; and Escape pressed while the panel is hidden leaves it hidden.
C21_PanelFollowsLastEvent ==
  /\ []((PanelPresent /\ lastEvent # "none") =>
          /\ ~panelHidden <=> lastEvent = "cell"
          /\ ~panelHidden =>
               /\ clicks # <<>>
               /\ panelContent = clicks[Len(clicks)].element
               /\ panelContent \in Range(elementsData)
               /\ panelContent.atomicNumber = clicks[Len(clicks)].atomicNumber)
  /\ [][(PanelPresent /\ panelHidden /\ lastEvent' = "escape") => panelHidden']_vars

\* two cells were clicked, of different elements; the panel is visible and
\* shows the second
C21_Witness ==
  /\ PanelPresent
  /\ lastEvent = "cell"
  /\ Len(clicks) = 2
  /\ clicks[1].atomicNumber # clicks[2].atomicNumber
  /\ ~panelHidden
  /\ panelContent.atomicNumber = clicks[2].atomicNumber

\* the panel was opened by a click and closed with Escape
C21_WitnessEscape ==
  /\ PanelPresent
  /\ lastEvent = "escape"
  /\ panelContent # NoContent
  /\ panelHidden

\* the panel was opened by a click and closed with its button
C21_WitnessClose ==
  /\ PanelPresent
  /\ lastEvent = "close"
  /\ panelHidden

====
